---------------------------- MODULE Spec2Model ----------------------------
(***************************************************************************)
(* Model of src/app.py: a Streamlit page that edits plain-text files kept  *)
(* in a Google Drive account through direct HTTP requests.                 *)
(*                                                                         *)
(* One action of the model is one run of main() in which the user pressed  *)
(* one button (or none), together with the run that st.rerun() starts      *)
(* right after it.  The Drive account, the HTTP responses and the text the *)
(* user typed into the two widgets are the inputs of a run.                *)
(***************************************************************************)
EXTENDS Integers, Sequences, FiniteSets, TLC

\* ------------------------------------------------------------------ bounds
\* Number of file ids the store hands out before creation is cut off.
MaxIds == 2
\* Longest request body (in bytes) a Save is allowed to send in the model.
MaxBytes == 2

\* --------------------------------------------------------------- constants
\* st.session_state.current_file_id = None
None == 0
\* "pageSize": 20
PageSize == 20
\* st.session_state.input_title: the default file name (written in ASCII here).
DefaultTitle == "untitled.txt"
\* st.session_state.input_content = ""
EmptyText == << >>

\* Browser sessions; each has its own st.session_state.
Sessions == {1, 2}
\* Ids the store can assign.
Ids == 1..MaxIds
\* What the user can type into the file-name st.text_input.
Titles == {"", DefaultTitle, "a.txt"}
\* What the user can type into the content st.text_area, as sequences of code
\* points: U+00E9 (e with acute).  The widget also offers the session's text.
Texts == {<<233>>}

VARIABLES
    sessions,         \* the browser sessions that are open
    current_file_id,  \* st.session_state.current_file_id, per session
    input_title,      \* st.session_state.input_title, per session
    input_content,    \* st.session_state.input_content, per session
    files,            \* the list the sidebar showed in the session's last run
    listed,           \* history: the ids the lists of the session's runs returned
    created,          \* history: the ids create_file_http returned to the session
    store,            \* the Drive account: file id -> [name, data (bytes)]
    nextId,           \* the id the store assigns to the next created file
    valid,            \* creds.valid of the cached credential
    pending_delete,   \* the two-step delete guard of the specification, per session
    call,             \* the client call a session's thread is in the middle of
    last              \* history: the last run (what was pressed, what it did)

vars == <<sessions, current_file_id, input_title, input_content, files, listed,
          created, store, nextId, valid, pending_delete, call, last>>

\* ------------------------------------------------------------ conversions
\* str.encode('utf-8') for code points below 2048.
RECURSIVE Utf8Encode(_)
Utf8Encode(text) ==
    IF text = << >> THEN << >>
    ELSE LET c == Head(text)
         IN  (IF c < 128 THEN <<c>>
              ELSE <<192 + (c \div 64), 128 + (c % 64)>>)
             \o Utf8Encode(Tail(text))

\* bytes.decode('utf-8', errors='replace') for one- and two-byte sequences.
RECURSIVE Utf8Decode(_)
Utf8Decode(bytes) ==
    IF bytes = << >> THEN << >>
    ELSE LET b == Head(bytes)
         IN  IF b < 128 THEN <<b>> \o Utf8Decode(Tail(bytes))
             ELSE IF /\ b >= 192 /\ b < 224 /\ Len(bytes) >= 2
                     /\ bytes[2] >= 128 /\ bytes[2] < 192
                  THEN <<(b - 192) * 64 + (bytes[2] - 128)>>
                       \o Utf8Decode(Tail(Tail(bytes)))
                  ELSE <<65533>> \o Utf8Decode(Tail(bytes))

\* bytes.decode('ISO-8859-1'): every byte is the code point of one character.
Latin1Decode(bytes) == [i \in 1..Len(bytes) |-> bytes[i]]

\* response.text: requests decodes the body with the charset the Content-Type
\* header declares, and with ISO-8859-1 when a text/* response declares none.
ResponseText(bytes, resp) ==
    IF resp = "ok_utf8" THEN Utf8Decode(bytes) ELSE Latin1Decode(bytes)

\* ------------------------------------------------------------ HTTP client
\* Responses to a list request: 200, or any other status.
ListResponses == {"ok", "status"}
\* Responses to a read: 200 with "Content-Type: text/plain; charset=UTF-8",
\* 200 with "Content-Type: text/plain", or any other status.
OkReads == {"ok_utf8", "ok_nocharset"}
ReadResponses == OkReads \cup {"status"}
\* Responses to a create or an update: 200, or a failure (any other status, no
\* connection, no response within the timeout) with the store left as it was.
WriteResponses == {"ok", "failed"}

\* get_access_token with the validity check left out.
get_access_token_without_check(v) ==
    [valid |-> TRUE, calls |-> <<"refresh">>]

\* get_access_token: refresh the credential when it is not valid.
get_access_token(v) ==
    [valid |-> TRUE, calls |-> IF ~v THEN <<"refresh">> ELSE << >>]

\* The files a list request matches: text/plain, not trashed, as (id, name).
Matching(st) == {[id |-> i, name |-> st[i].name] : i \in DOMAIN st}

\* The possible bodies of a 200 list response: at most pageSize of the matches.
Pages(st) ==
    IF Cardinality(Matching(st)) <= PageSize THEN {Matching(st)}
    ELSE {p \in SUBSET Matching(st) : Cardinality(p) = PageSize}

\* get_text_files_http: token, GET; the files on 200, st.error and [] otherwise.
get_text_files_http(v, page, resp) ==
    LET tok == get_access_token(v)
    IN  [files |-> IF resp = "ok" THEN page ELSE {},
         msgs  |-> IF resp = "ok" THEN {} ELSE {"list_error"},
         calls |-> tok.calls \o <<"list">>,
         valid |-> tok.valid]

\* read_file_http without line 60: an empty id is requested like any other,
\* and the store answers that it has no such file.
read_file_http_without_guard(v, st, file_id, resp) ==
    LET tok == get_access_token(v)
        found == resp \in OkReads /\ file_id \in DOMAIN st
    IN  [text  |-> IF found THEN ResponseText(st[file_id].data, resp) ELSE EmptyText,
         msgs  |-> IF found THEN {} ELSE {"read_error"},
         calls |-> tok.calls \o <<"read">>,
         valid |-> tok.valid]

\* read_file_http: "" for an empty id; else token, GET; response.text on 200,
\* st.error and "" otherwise.
read_file_http(v, st, file_id, resp) ==
    IF file_id = None
    THEN [text |-> EmptyText, msgs |-> {}, calls |-> << >>, valid |-> v]
    ELSE LET tok == get_access_token(v)
         IN  [text  |-> IF resp \in OkReads
                        THEN ResponseText(st[file_id].data, resp)
                        ELSE EmptyText,
              msgs  |-> IF resp \in OkReads THEN {} ELSE {"read_error"},
              calls |-> tok.calls \o <<"read">>,
              valid |-> tok.valid]

\* The store after it carried out a multipart create: one new file with the
\* name of the metadata part and the bytes of the file part.
Created(st, nid, title, content) ==
    [i \in DOMAIN st \cup {nid} |->
        IF i = nid THEN [name |-> title, data |-> Utf8Encode(content)] ELSE st[i]]

\* Updated with the content sent as content.encode('latin-1'): one byte for
\* each character.
UpdatedAsLatin1(st, file_id, content) ==
    [st EXCEPT ![file_id] = [name |-> st[file_id].name, data |-> content]]

\* The store after it carried out a media update: the bytes of that file replaced.
Updated(st, file_id, content) ==
    [st EXCEPT ![file_id] = [name |-> st[file_id].name, data |-> Utf8Encode(content)]]

\* create_file_http as two dependent requests: a POST of the metadata, then an
\* upload of the content that can fail and leave the file without its content.
create_file_in_two_calls(v, st, nid, title, content, resp) ==
    LET tok == get_access_token(v)
    IN  [raised |-> resp # "ok",
         id     |-> IF resp = "ok" THEN nid ELSE None,
         store  |-> IF resp = "ok"
                    THEN Created(st, nid, title, content)
                    ELSE Created(st, nid, title, EmptyText),
         calls  |-> tok.calls \o <<"create", "update">>,
         valid  |-> tok.valid]

\* create_file_http: token, one multipart POST; the new id on 200, raises otherwise.
create_file_http(v, st, nid, title, content, resp) ==
    LET tok == get_access_token(v)
    IN  [raised |-> resp # "ok",
         id     |-> IF resp = "ok" THEN nid ELSE None,
         store  |-> IF resp = "ok"
                    THEN Created(st, nid, title, content) ELSE st,
         calls  |-> tok.calls \o <<"create">>,
         valid  |-> tok.valid]

\* update_file_http: token, one media PATCH of the content; raises unless 200,
\* returns nothing.
update_file_http(v, st, file_id, content, resp) ==
    LET tok == get_access_token(v)
    IN  [raised |-> resp # "ok",
         id     |-> None,
         store  |-> IF resp = "ok"
                    THEN Updated(st, file_id, content) ELSE st,
         calls  |-> tok.calls \o <<"update">>,
         valid  |-> tok.valid]

\* ------------------------------------------------------------------- main
\* The ids of a list result.
IdsOf(fs) == {f.id : f \in fs}

\* The three session variables as one record.
Session(id, title, content) == [id |-> id, title |-> title, content |-> content]
Cur(s) == Session(current_file_id[s], input_title[s], input_content[s])

\* Lines 135-140: the session state of a session's first run.
FreshSession == Session(None, DefaultTitle, EmptyText)

\* OnNew with the text buffer left as it was.
OnNewKeepsText(cur) == Session(None, DefaultTitle, cur.content)

\* Lines 145-148: the "new" button.
OnNew(cur) == Session(None, DefaultTitle, EmptyText)

\* Lines 165-168: the mode the page announces.
Mode(s) == IF current_file_id[s] = None THEN "Create" ELSE "Edit"

\* OnSelect with the id of the neighbouring entry instead of f['id'].
OnSelectNeighbour(cur, f, rd) == Session(f.id + 1, f.name, rd.text)

\* Lines 158-161: the button of file f; rd is what read_file_http returned.
OnSelect(cur, f, rd) == Session(f.id, f.name, rd.text)

\* TitleOk with the check left out.
TitleOkAlways(title) == TRUE

\* Line 174: the title check of the save button.
TitleOk(title) == title # ""

\* OnSave with the buffer stored before the request is known to have succeeded.
OnSaveEager(cur, title, content, w) ==
    Session(IF cur.id = None /\ ~w.raised THEN w.id ELSE cur.id, title, content)

\* OnSave without line 182: the id create_file_http returned is not stored.
OnSaveForgetsId(cur, title, content, w) ==
    IF w.raised THEN cur ELSE Session(cur.id, title, content)

\* OnSave storing what the write call returned in both branches
\* (update_file_http returns nothing).
OnSaveAdoptsReturn(cur, title, content, w) ==
    IF w.raised THEN cur ELSE Session(w.id, title, content)

\* OnSave without line 189 in Edit mode: the title typed for a document that
\* exists is dropped.
OnSaveDropsTitle(cur, title, content, w) ==
    IF w.raised THEN cur
    ELSE IF cur.id = None THEN Session(w.id, title, content)
    ELSE Session(cur.id, cur.title, content)

\* Lines 177-197: the try block of the save button; w is what the write call did.
OnSave(cur, title, content, w) ==
    IF w.raised THEN cur
    ELSE Session(IF cur.id = None THEN w.id ELSE cur.id, title, content)

\* The messages of the save button's try block.
SaveMsgs(cur, w) ==
    IF w.raised THEN {"save_failed"}
    ELSE IF cur.id = None THEN {"created"} ELSE {"updated"}

\* Line 154-155: the note shown for an empty list.
EmptyNote(fs) == IF fs = {} THEN {"no_files"} ELSE {}

\* The history record of a run of session s: the button pressed (op), the id
\* the session had selected before the run (for SelectFile: the id of the
\* button), the title and content the handler worked with, the response to the
\* handler's request, the requests of the run in order, the messages shown, and
\* whether the run directly follows a successful create of the same session.
Ran(op, s, id, title, content, resp, calls, msgs) ==
    [op |-> op, s |-> s, id |-> id, title |-> title, content |-> content,
     resp |-> resp, calls |-> calls, msgs |-> msgs,
     follows |-> /\ last.op = "Save" /\ last.s = s /\ last.resp = "ok"
                 /\ last.id = None]

\* SetSession on state shared by all sessions (a module global instead of
\* st.session_state).
SetSessionOfAll(s, n) ==
    /\ current_file_id' = [t \in Sessions |-> n.id]
    /\ input_title' = [t \in Sessions |-> n.title]
    /\ input_content' = [t \in Sessions |-> n.content]

\* The session variables of s become the record n.
SetSession(s, n) ==
    /\ current_file_id' = [current_file_id EXCEPT ![s] = n.id]
    /\ input_title' = [input_title EXCEPT ![s] = n.title]
    /\ input_content' = [input_content EXCEPT ![s] = n.content]

\* The sidebar of s shows fs; the lists of the run returned the ids seen.
SetFiles(s, fs, seen) ==
    /\ files' = [files EXCEPT ![s] = fs]
    /\ listed' = [listed EXCEPT ![s] = @ \cup seen]

\* No client call is under way.  A call under way has passed the check of line
\* 27: found is what creds.valid was, pc what the call does next, calls what it
\* has done so far.
Idle == [pc |-> "idle", req |-> "", id |-> None, found |-> TRUE, calls |-> << >>]

\* The Drive account when the first session opens: one text file, "a.txt",
\* holding U+00E9.
InitialStore == (1 :> [name |-> "a.txt", data |-> Utf8Encode(<<233>>)])

Init ==
    /\ sessions = {1}
    /\ current_file_id = [s \in Sessions |-> FreshSession.id]
    /\ input_title = [s \in Sessions |-> FreshSession.title]
    /\ input_content = [s \in Sessions |-> FreshSession.content]
    /\ files = [s \in Sessions |-> {}]
    /\ listed = [s \in Sessions |-> {}]
    /\ created = [s \in Sessions |-> {}]
    /\ store = InitialStore
    /\ nextId = 1 + Cardinality(DOMAIN InitialStore)
    /\ valid = FALSE
    /\ pending_delete = [s \in Sessions |-> FALSE]
    /\ call = [s \in Sessions |-> Idle]
    /\ last = [op |-> "Init", s |-> 1, id |-> None, title |-> "", content |-> EmptyText,
               resp |-> "", calls |-> << >>, msgs |-> {}, follows |-> FALSE]

\* Rerun that starts the session afresh when the list request fails.
RerunForgetsOnError(s) ==
    \E r \in ListResponses, page \in Pages(store) :
        LET l == get_text_files_http(valid, page, r)
        IN  /\ SetSession(s, IF r = "ok" THEN Cur(s) ELSE FreshSession)
            /\ SetFiles(s, l.files, IdsOf(l.files))
            /\ valid' = l.valid
            /\ last' = Ran("Rerun", s, current_file_id[s], "", EmptyText, r, l.calls,
                           l.msgs \cup EmptyNote(l.files))
            /\ UNCHANGED <<sessions, created, store, nextId>>

\* A run of main() with no button pressed (a page load, or a widget edited):
\* the sidebar is listed again and nothing else happens.
Rerun(s) ==
    \E r \in ListResponses, page \in Pages(store) :
        LET l == get_text_files_http(valid, page, r)
        IN  /\ SetFiles(s, l.files, IdsOf(l.files))
            /\ valid' = l.valid
            /\ last' = Ran("Rerun", s, current_file_id[s], "", EmptyText, r, l.calls,
                           l.msgs \cup EmptyNote(l.files))
            /\ UNCHANGED <<sessions, current_file_id, input_title, input_content,
                           created, store, nextId>>

\* The "new" button: lines 145-149, then the run st.rerun() starts.
StartNew(s) ==
    \E r \in ListResponses, page \in Pages(store) :
        LET l == get_text_files_http(valid, page, r)
        IN  /\ SetSession(s, OnNew(Cur(s)))
            /\ SetFiles(s, l.files, IdsOf(l.files))
            /\ valid' = l.valid
            /\ last' = Ran("StartNew", s, current_file_id[s], "", EmptyText, r, l.calls,
                           l.msgs \cup EmptyNote(l.files))
            /\ UNCHANGED <<sessions, created, store, nextId>>

\* The button of a file the sidebar showed: the run lists the files again
\* (line 153); the press counts when the button is still there; lines 158-162,
\* then the run st.rerun() starts.
SelectFile(s) ==
    \E id \in IdsOf(files[s]), r1 \in ListResponses, page \in Pages(store) :
        LET l1 == get_text_files_http(valid, page, r1)
        IN  \/ /\ id \notin IdsOf(l1.files)
               /\ SetFiles(s, l1.files, IdsOf(l1.files))
               /\ valid' = l1.valid
               /\ last' = Ran("SelectFile", s, id, "", EmptyText, "gone", l1.calls,
                              l1.msgs \cup EmptyNote(l1.files))
               /\ UNCHANGED <<sessions, current_file_id, input_title, input_content,
                              created, store, nextId>>
            \/ \E f \in l1.files, rr \in ReadResponses, r2 \in ListResponses :
                  LET rd == read_file_http(l1.valid, store, f.id, rr)
                      l2 == get_text_files_http(rd.valid, page, r2)
                  IN  /\ f.id = id
                      /\ SetSession(s, OnSelect(Cur(s), f, rd))
                      /\ SetFiles(s, l2.files, IdsOf(l1.files) \cup IdsOf(l2.files))
                      /\ valid' = l2.valid
                      /\ last' = Ran("SelectFile", s, id, f.name, rd.text, rr,
                                     l1.calls \o rd.calls \o l2.calls,
                                     l1.msgs \cup rd.msgs \cup l2.msgs
                                        \cup EmptyNote(l2.files))
                      /\ UNCHANGED <<sessions, created, store, nextId>>

\* The save button: the run lists the files (line 153), reads the two widgets
\* (lines 170-171), then lines 173-197, and on success the run st.rerun() starts.
Save(s) ==
    \E title \in Titles \cup {input_title[s]},
       content \in Texts \cup {input_content[s]},
       r1 \in ListResponses, page \in Pages(store) :
        LET l1 == get_text_files_http(valid, page, r1)
            cur == Cur(s)
        IN  \/ /\ ~TitleOk(title)
               /\ SetFiles(s, l1.files, IdsOf(l1.files))
               /\ valid' = l1.valid
               /\ last' = Ran("Save", s, cur.id, title, content, "blank", l1.calls,
                              l1.msgs \cup EmptyNote(l1.files) \cup {"warning"})
               /\ UNCHANGED <<sessions, current_file_id, input_title, input_content,
                              created, store, nextId>>
            \/ \E wr \in WriteResponses :
                  LET w == IF cur.id = None
                           THEN create_file_http(l1.valid, store, nextId, title, content, wr)
                           ELSE update_file_http(l1.valid, store, cur.id, content, wr)
                      applied == wr = "ok"
                  IN  /\ TitleOk(title)
                      /\ Len(Utf8Encode(content)) <= MaxBytes
                      /\ applied /\ cur.id = None => nextId \in Ids
                      /\ applied /\ cur.id # None => cur.id \in DOMAIN store
                      /\ SetSession(s, OnSave(cur, title, content, w))
                      /\ store' = w.store
                      /\ nextId' = IF applied /\ cur.id = None THEN nextId + 1 ELSE nextId
                      /\ valid' = w.valid
                      /\ created' = [created EXCEPT ![s] =
                                        IF ~w.raised /\ cur.id = None
                                        THEN @ \cup {w.id} ELSE @]
                      /\ UNCHANGED sessions
                      /\ \/ /\ w.raised
                            /\ SetFiles(s, l1.files, IdsOf(l1.files))
                            /\ last' = Ran("Save", s, cur.id, title, content, wr,
                                           l1.calls \o w.calls,
                                           l1.msgs \cup EmptyNote(l1.files)
                                              \cup SaveMsgs(cur, w))
                         \/ \E r2 \in ListResponses, page2 \in Pages(w.store) :
                               LET l2 == get_text_files_http(w.valid, page2, r2)
                               IN  /\ ~w.raised
                                   /\ SetFiles(s, l2.files,
                                               IdsOf(l1.files) \cup IdsOf(l2.files))
                                   /\ last' = Ran("Save", s, cur.id, title, content, wr,
                                                  l1.calls \o w.calls \o l2.calls,
                                                  l1.msgs \cup SaveMsgs(cur, w) \cup l2.msgs
                                                     \cup EmptyNote(l2.files))

\* The history record of a step of the environment.
Env(op, id) ==
    [op |-> op, s |-> 0, id |-> id, title |-> "", content |-> EmptyText,
     resp |-> "", calls |-> << >>, msgs |-> {}, follows |-> FALSE]

\* The store without the file id.
Removed(st, id) == [i \in DOMAIN st \ {id} |-> st[i]]

\* The owner of the Drive account removes a file (the list query, line 40,
\* and a read by id then no longer find it).
ExternalDelete ==
    \E id \in DOMAIN store :
        /\ store' = Removed(store, id)
        /\ last' = Env("ExternalDelete", id)
        /\ UNCHANGED <<sessions, current_file_id, input_title, input_content, files,
                       listed, created, nextId, valid>>

Next ==
    \/ \E s \in sessions : Rerun(s) /\ UNCHANGED <<pending_delete, call>>
    \/ \E s \in sessions : StartNew(s) /\ UNCHANGED <<pending_delete, call>>
    \/ \E s \in sessions : SelectFile(s) /\ UNCHANGED <<pending_delete, call>>
    \/ \E s \in sessions : Save(s) /\ UNCHANGED <<pending_delete, call>>
    \/ ExternalDelete /\ UNCHANGED <<pending_delete, call>>

Spec == Init /\ [][Next]_vars

\* ------------------------------------------- the delete of the specification
\* src/app.py has no delete control.  The specification describes one (4.1
\* deleteDocument, 4.2 RequestDelete); it is modelled here from the
\* specification's words, in a specification of its own.

\* Responses to a delete: success, or a failure with the store left as it was.
DeleteResponses == {"ok", "failed"}

\* deleteDocument(id): token, one DELETE; fails unless the store reports success.
\* Deleting an id the store no longer holds succeeds and changes nothing.
deleteDocument(v, st, file_id, resp) ==
    LET tok == get_access_token(v)
    IN  [raised |-> resp # "ok",
         store  |-> IF resp = "ok" THEN Removed(st, file_id) ELSE st,
         calls  |-> tok.calls \o <<"delete">>,
         valid  |-> tok.valid]

\* OnRequestDelete that deletes on the first press.
OnRequestDeleteAtOnce(cur, pending, d) ==
    IF d.raised THEN [session |-> cur, pending |-> pending, call |-> TRUE]
    ELSE [session |-> OnNew(cur), pending |-> FALSE, call |-> TRUE]

\* RequestDelete of 4.2: the first press only raises the guard; the second
\* calls deleteDocument and then does what StartNew does; a failed delete
\* leaves the session as it was.  d is what the delete call would do.
OnRequestDelete(cur, pending, d) ==
    IF ~pending THEN [session |-> cur, pending |-> TRUE, call |-> FALSE]
    ELSE IF d.raised THEN [session |-> cur, pending |-> pending, call |-> TRUE]
    ELSE [session |-> OnNew(cur), pending |-> FALSE, call |-> TRUE]

\* The delete button, enabled in Edit mode.
RequestDelete(s) ==
    \E dr \in DeleteResponses :
        LET cur == Cur(s)
            d == deleteDocument(valid, store, cur.id, dr)
            n == OnRequestDelete(cur, pending_delete[s], d)
        IN  /\ Mode(s) = "Edit"
            /\ SetSession(s, n.session)
            /\ pending_delete' = [pending_delete EXCEPT ![s] = n.pending]
            /\ store' = IF n.call THEN d.store ELSE store
            /\ valid' = IF n.call THEN d.valid ELSE valid
            /\ last' = Ran("RequestDelete", s, cur.id, "", EmptyText,
                           IF n.call THEN dr ELSE "asked",
                           IF n.call THEN d.calls ELSE << >>,
                           IF ~n.call THEN {"confirm"}
                           ELSE IF d.raised THEN {"delete_failed"} ELSE {"deleted"})
            /\ UNCHANGED <<sessions, files, listed, created, nextId>>

\* Any other event of the session lowers the guard (4.2, last row of the table).
Dismiss(s) == pending_delete' = [pending_delete EXCEPT ![s] = FALSE]

NextDelete ==
    \/ \E s \in sessions : Rerun(s) /\ Dismiss(s) /\ UNCHANGED call
    \/ \E s \in sessions : StartNew(s) /\ Dismiss(s) /\ UNCHANGED call
    \/ \E s \in sessions : SelectFile(s) /\ Dismiss(s) /\ UNCHANGED call
    \/ \E s \in sessions : Save(s) /\ Dismiss(s) /\ UNCHANGED call
    \/ \E s \in sessions : RequestDelete(s) /\ UNCHANGED call
    \/ ExternalDelete /\ UNCHANGED <<pending_delete, call>>

SpecDelete == Init /\ [][NextDelete]_vars

\* ------------------------------------------------------------ two sessions
\* Two browser sessions are open on the same Drive account; each has its own
\* st.session_state, and their runs interleave in any order.
InitTwo ==
    /\ sessions = Sessions
    /\ current_file_id = [s \in Sessions |-> FreshSession.id]
    /\ input_title = [s \in Sessions |-> FreshSession.title]
    /\ input_content = [s \in Sessions |-> FreshSession.content]
    /\ files = [s \in Sessions |-> {}]
    /\ listed = [s \in Sessions |-> {}]
    /\ created = [s \in Sessions |-> {}]
    /\ store = InitialStore
    /\ nextId = 1 + Cardinality(DOMAIN InitialStore)
    /\ valid = FALSE
    /\ pending_delete = [s \in Sessions |-> FALSE]
    /\ call = [s \in Sessions |-> Idle]
    /\ last = [op |-> "Init", s |-> 1, id |-> None, title |-> "", content |-> EmptyText,
               resp |-> "", calls |-> << >>, msgs |-> {}, follows |-> FALSE]

\* The runs of the two sessions in any order.  The sessions work on the
\* documents the account holds: the save button is pressed in Edit mode.
NextTwo ==
    \/ \E s \in sessions : Rerun(s) /\ UNCHANGED <<pending_delete, call>>
    \/ \E s \in sessions : StartNew(s) /\ UNCHANGED <<pending_delete, call>>
    \/ \E s \in sessions : SelectFile(s) /\ UNCHANGED <<pending_delete, call>>
    \/ \E s \in sessions : Mode(s) = "Edit" /\ Save(s) /\ UNCHANGED <<pending_delete, call>>
    \/ ExternalDelete /\ UNCHANGED <<pending_delete, call>>

SpecTwo == InitTwo /\ [][NextTwo]_vars

\* ------------------------------------------------------- the client calls
\* The calls of the HTTP client one by one, as the threads of two sessions
\* make them.  get_creds is an st.cache_resource (lines 12-13): both threads
\* use the same credential, and a call is not atomic: between its check of
\* creds.valid, its refresh and its request the other thread's call can run.

\* The requests of the client.
Requests == {"list", "read", "create", "update"}

\* Two sessions are open and the credential has not been used yet.
InitClient == InitTwo

\* read_file_http with an empty id (None or ""): line 60 returns at once.
ReadWithoutId(s) ==
    \E rr \in ReadResponses :
        LET rd == read_file_http(valid, store, None, rr)
        IN  /\ call[s].pc = "idle"
            /\ valid' = rd.valid
            /\ last' = Ran("ReadWithoutId", s, None, "", rd.text, rr, rd.calls, rd.msgs)
            /\ UNCHANGED <<sessions, current_file_id, input_title, input_content,
                           files, listed, created, store, nextId, pending_delete, call>>

\* A client function is called (a read or an update with the id of a file)
\* and get_access_token evaluates creds.valid (line 27).
Check(s) ==
    \E req \in Requests :
        \E id \in IF req \in {"read", "update"} THEN DOMAIN store ELSE {None} :
            LET tok == get_access_token(valid)
            IN  /\ call[s].pc = "idle"
                /\ call' = [call EXCEPT ![s] =
                              [pc |-> IF tok.calls = << >> THEN "send" ELSE "refresh",
                               req |-> req, id |-> id, found |-> valid,
                               calls |-> << >>]]
                /\ last' = Ran("Check", s, id, "", EmptyText, "", << >>, {})
                /\ UNCHANGED <<sessions, current_file_id, input_title, input_content,
                               files, listed, created, store, nextId, valid,
                               pending_delete>>

\* creds.refresh(Request()) (line 28): the credential becomes valid, or the
\* refresh raises and the call ends without its request.
Refresh(s) ==
    \E resp \in {"ok", "failed"} :
        /\ call[s].pc = "refresh"
        /\ valid' = IF resp = "ok" THEN get_access_token(FALSE).valid ELSE valid
        /\ call' = [call EXCEPT ![s] =
                      IF resp = "ok"
                      THEN [@ EXCEPT !.pc = "send", !.calls = <<"refresh">>]
                      ELSE Idle]
        /\ last' = Ran("Refresh", s, call[s].id, "", EmptyText, resp, <<"refresh">>, {})
        /\ UNCHANGED <<sessions, current_file_id, input_title, input_content,
                       files, listed, created, store, nextId, pending_delete>>

\* The call sends its request with the token it holds and returns.
Send(s) ==
    LET c == call[s]
        done(op, id, title, content, resp, calls, msgs) ==
            /\ call' = [call EXCEPT ![s] = Idle]
            /\ last' = Ran(op, s, id, title, content, resp, c.calls \o calls, msgs)
            /\ UNCHANGED <<sessions, current_file_id, input_title, input_content,
                           files, listed, created, valid, pending_delete>>
    IN  /\ c.pc = "send"
        /\ \/ \E r \in ListResponses, page \in Pages(store) :
                 LET l == get_text_files_http(TRUE, page, r)
                 IN  /\ c.req = "list"
                     /\ done("Send", None, "", EmptyText, r, l.calls, l.msgs)
                     /\ UNCHANGED <<store, nextId>>
           \/ \E rr \in ReadResponses :
                 LET rd == read_file_http(TRUE, store, c.id, rr)
                 IN  /\ c.req = "read"
                     /\ done("Send", c.id, "", rd.text, rr, rd.calls, rd.msgs)
                     /\ UNCHANGED <<store, nextId>>
           \/ \E title \in Titles, content \in Texts, wr \in WriteResponses :
                 LET w == create_file_http(TRUE, store, nextId, title, content, wr)
                 IN  /\ c.req = "create"
                     /\ TitleOk(title)
                     /\ ~w.raised => nextId \in Ids
                     /\ done("Send", None, title, content, wr, w.calls, {})
                     /\ store' = w.store
                     /\ nextId' = IF w.raised THEN nextId ELSE nextId + 1
           \/ \E content \in Texts \cup {EmptyText}, wr \in WriteResponses :
                 LET w == update_file_http(TRUE, store, c.id, content, wr)
                 IN  /\ c.req = "update"
                     /\ done("Send", c.id, "", content, wr, w.calls, {})
                     /\ store' = w.store
                     /\ UNCHANGED nextId

\* The access token of the credential expires: creds.valid becomes False.
ExpireToken ==
    /\ valid
    /\ valid' = FALSE
    /\ last' = Env("ExpireToken", None)
    /\ UNCHANGED <<sessions, current_file_id, input_title, input_content, files,
                   listed, created, store, nextId, pending_delete, call>>

NextClient ==
    \/ \E s \in sessions : ReadWithoutId(s)
    \/ \E s \in sessions : Check(s)
    \/ \E s \in sessions : Refresh(s)
    \/ \E s \in sessions : Send(s)
    \/ ExpireToken

SpecClient == InitClient /\ [][NextClient]_vars

\* ----------------------------------------------------------------- claims
\* The run recorded in h sent the request c.
Sent(h, c) == \E i \in DOMAIN h.calls : h.calls[i] = c

\* The step leaves the three session variables of s as they were.
SessionKept(s) ==
    /\ current_file_id'[s] = current_file_id[s]
    /\ input_title'[s] = input_title[s]
    /\ input_content'[s] = input_content[s]

\* C1, as amended: in Create mode no id is selected, and in Edit mode the
\* selected id is one that create_file_http returned to the session or that
\* some earlier list of the session contained.
C1_SelectedIdWasReturned ==
    \A s \in sessions :
        /\ Mode(s) = "Create" => current_file_id[s] = None
        /\ Mode(s) = "Edit" => current_file_id[s] \in created[s] \cup listed[s]

\* C1 witness: Edit mode on a listed id that the last list no longer contains.
C1_Witness ==
    \E s \in sessions :
        /\ Mode(s) = "Edit"
        /\ current_file_id[s] \in listed[s]
        /\ current_file_id[s] \notin IdsOf(files[s])

\* C1 as stated: in Edit mode the selected id was returned by a create or is
\* in the last list result.
C1_SelectedIdInLastList ==
    \A s \in sessions :
        /\ Mode(s) = "Create" => current_file_id[s] = None
        /\ Mode(s) = "Edit" => current_file_id[s] \in created[s] \cup IdsOf(files[s])

\* C2: a Save whose write request fails shows a message and leaves
\* current_file_id, input_title and input_content as they were.
C2_FailedSaveKeepsSession ==
    [][\A s \in sessions :
          (last'.op = "Save" /\ last'.s = s /\ last'.resp = "failed")
              => (SessionKept(s) /\ "save_failed" \in last'.msgs)]_vars

\* C2 witness: a create failed; the session is still in Create mode and its
\* buffer is not the text that was submitted.
C2_Witness ==
    /\ last.op = "Save" /\ last.resp = "failed" /\ last.id = None
    /\ Sent(last, "create")
    /\ Mode(last.s) = "Create"
    /\ input_content[last.s] # last.content

\* C3: a SelectFile whose read gets a non-200 response shows a message and
\* leaves current_file_id, input_title and input_content as they were.
C3_FailedReadKeepsSession ==
    [][\A s \in sessions :
          (last'.op = "SelectFile" /\ last'.s = s /\ last'.resp = "status")
              => (SessionKept(s) /\ "read_error" \in last'.msgs)]_vars

\* C5: a Save with an empty title sends no create and no update, leaves the
\* session variables and the store as they were, and shows a warning.
C5_BlankTitleSave ==
    [][\A s \in sessions :
          (last'.op = "Save" /\ last'.s = s /\ last'.title = "")
              => /\ SessionKept(s)
                 /\ store' = store
                 /\ ~Sent(last', "create") /\ ~Sent(last', "update")
                 /\ "warning" \in last'.msgs]_vars

\* C5 witness: a Save with an empty title in Create mode, with text typed.
C5_Witness ==
    /\ last.op = "Save" /\ last.title = "" /\ last.id = None
    /\ last.content # EmptyText
    /\ Mode(last.s) = "Create"
    /\ "warning" \in last.msgs

\* The number of requests c the run recorded in h sent.
Count(h, c) == Cardinality({i \in DOMAIN h.calls : h.calls[i] = c})

\* C6: a successful Save in Create mode sends exactly one create, selects the
\* id of the one document the store gained, and a successful Save of the same
\* session right after it sends an update of that id and no create, so the two
\* Saves add one document.
C6_CreateThenUpdate ==
    [][\A s \in sessions :
          /\ (last'.op = "Save" /\ last'.s = s /\ last'.resp = "ok" /\ last'.id = None)
                => /\ Count(last', "create") = 1 /\ ~Sent(last', "update")
                   /\ DOMAIN store \subseteq DOMAIN store'
                   /\ DOMAIN store' \ DOMAIN store = {current_file_id'[s]}
          /\ (last'.op = "Save" /\ last'.s = s /\ last'.resp = "ok" /\ last'.follows)
                => /\ Count(last', "update") = 1 /\ ~Sent(last', "create")
                   /\ last'.id = current_file_id[s]
                   /\ current_file_id'[s] = current_file_id[s]
                   /\ DOMAIN store' = DOMAIN store]_vars

\* C6 witness: a successful Save right after the session's successful create;
\* it updated the created document.
C6_Witness ==
    /\ last.op = "Save" /\ last.resp = "ok" /\ last.follows
    /\ Sent(last, "update")
    /\ current_file_id[last.s] \in created[last.s]
    /\ store[current_file_id[last.s]].data = Utf8Encode(last.content)

\* C7: a successful Save in Edit mode keeps the selected id, creates nothing,
\* replaces the content of the selected document, keeps its name, and leaves
\* every other document as it was.
C7_UpdateOverwritesContentOnly ==
    [][\A s \in sessions :
          (last'.op = "Save" /\ last'.s = s /\ last'.resp = "ok" /\ last'.id # None)
              => LET id == current_file_id[s]
                 IN  /\ current_file_id'[s] = id
                     /\ ~Sent(last', "create")
                     /\ DOMAIN store' = DOMAIN store
                     /\ store'[id].name = store[id].name
                     /\ store'[id].data = Utf8Encode(last'.content)
                     /\ \A j \in DOMAIN store \ {id} : store'[j] = store[j]]_vars

\* C7 witness: a successful Save in Edit mode with the title edited, while the
\* store holds another document.
C7_Witness ==
    /\ last.op = "Save" /\ last.resp = "ok" /\ last.id # None
    /\ last.id \in DOMAIN store
    /\ last.title # store[last.id].name
    /\ \E j \in DOMAIN store : j # last.id

\* C8: after a successful Save (a create or an update) of a text, a successful
\* read of the saved document returns exactly that text.
C8_ReadReturnsWrittenText ==
    (last.op = "Save" /\ last.resp = "ok")
        => \A rr \in OkReads :
              read_file_http(valid, store, current_file_id[last.s], rr).text
                  = last.content

\* C9: a SelectFile whose read succeeds selects the id of the button, and sets
\* the title to the file's name and the content to the file's stored text.
C9_SelectLoadsFile ==
    [][\A s \in sessions :
          (last'.op = "SelectFile" /\ last'.s = s /\ last'.resp \in OkReads)
              => /\ current_file_id'[s] = last'.id
                 /\ input_title'[s] = store[last'.id].name
                 /\ input_content'[s] = Utf8Decode(store[last'.id].data)]_vars

\* C10: the "new" button can be pressed in every state of a session, and
\* pressing it leaves the session in Create mode with no id, the default title
\* and an empty text, the store as it was, and no create, update or read sent.
C10_StartNew ==
    /\ [](\A s \in sessions : ENABLED StartNew(s))
    /\ [][\A s \in sessions :
             (last'.op = "StartNew" /\ last'.s = s)
                 => /\ current_file_id'[s] = None
                    /\ input_title'[s] = DefaultTitle
                    /\ input_content'[s] = EmptyText
                    /\ store' = store
                    /\ ~Sent(last', "create") /\ ~Sent(last', "update")
                    /\ ~Sent(last', "read")]_vars

\* C10 witness: the button was pressed in Edit mode on an id the store no
\* longer holds, and the session is in Create mode.
C10_Witness ==
    /\ last.op = "StartNew"
    /\ last.id # None /\ last.id \notin DOMAIN store
    /\ Mode(last.s) = "Create"
    /\ input_title[last.s] = DefaultTitle /\ input_content[last.s] = EmptyText

\* C4: in Edit mode a first press of the delete button raises the guard and
\* sends no delete; a second press in succession sends one delete of the
\* selected id and, when the store carries it out, leaves the session in Create
\* mode with no id selected and the document gone.
C4_TwoStepDelete ==
    [][\A s \in sessions :
          (last'.op = "RequestDelete" /\ last'.s = s)
              => /\ Mode(s) = "Edit"
                 /\ ~pending_delete[s]
                       => /\ pending_delete'[s]
                          /\ ~Sent(last', "delete")
                          /\ store' = store
                          /\ SessionKept(s)
                 /\ pending_delete[s]
                       => /\ Count(last', "delete") = 1
                          /\ last'.id = current_file_id[s]
                          /\ last'.resp = "ok"
                                => /\ current_file_id'[s] = None
                                   /\ ~pending_delete'[s]
                                   /\ store' = Removed(store, current_file_id[s])]_vars

\* C4 witness: the second press deleted the selected document and the session
\* is in Create mode.
C4_Witness ==
    /\ last.op = "RequestDelete" /\ last.resp = "ok"
    /\ Sent(last, "delete")
    /\ last.id # None /\ last.id \notin DOMAIN store
    /\ Mode(last.s) = "Create"
    /\ ~pending_delete[last.s]

\* C11: every Save with a title sends exactly one create or update (a create
\* in Create mode, an update in Edit mode) and a Save without a title none;
\* a document the store gains in a Save has the submitted name and the
\* submitted content together, and a Save whose request fails leaves the
\* store as it was.
C11_OneMutationPerSave ==
    [][\A s \in sessions :
          (last'.op = "Save" /\ last'.s = s)
              => /\ Count(last', "create") + Count(last', "update")
                       = (IF last'.title = "" THEN 0 ELSE 1)
                 /\ Sent(last', "create") => current_file_id[s] = None
                 /\ Sent(last', "update") => current_file_id[s] # None
                 /\ \A id \in DOMAIN store' \ DOMAIN store :
                       /\ store'[id].name = last'.title
                       /\ store'[id].data = Utf8Encode(last'.content)
                 /\ last'.resp = "failed" => store' = store]_vars

\* C11 witness: a create with text typed failed after its one request; the
\* store holds no document under the id it would have assigned.
C11_Witness ==
    /\ last.op = "Save" /\ last.resp = "failed" /\ last.id = None
    /\ last.content # EmptyText
    /\ Count(last, "create") = 1 /\ Count(last, "update") = 0
    /\ nextId \notin DOMAIN store

\* C12: current_file_id, input_title and input_content of a session change
\* only in a run of that session in which the "new" button, a file button or
\* the save button (with the write request successful) was pressed; a run with
\* no button pressed lists the files and, whatever the list returns, leaves
\* the three variables of every session as they were.
C12_SessionChangesOnlyByButtons ==
    [][/\ \A s \in Sessions :
             ~SessionKept(s)
                 => /\ last'.s = s
                    /\ \/ last'.op \in {"StartNew", "SelectFile"}
                       \/ last'.op = "Save" /\ last'.resp = "ok"
       /\ last'.op = "Rerun"
             => /\ Sent(last', "list")
                /\ \A s \in Sessions : SessionKept(s)]_vars

\* C12 witness: a run with no button pressed whose list request failed, in a
\* session in Edit mode with text in its buffer; the buffer is still there.
C12_Witness ==
    /\ last.op = "Rerun" /\ last.resp = "status"
    /\ "list_error" \in last.msgs
    /\ files[last.s] = {}
    /\ Mode(last.s) = "Edit"
    /\ current_file_id[last.s] = last.id
    /\ input_content[last.s] # EmptyText

\* C13: with two sessions open, a run of one session leaves the three session
\* variables of the other as they were; and a successful Save of a session on
\* the document the other session has selected too leaves the store holding
\* the content of that Save, also when the run before it was a successful
\* Save of the other session on that document.
C13_LastWriteWins ==
    [][\A s \in sessions : \A t \in sessions \ {s} :
          /\ last'.s = s => SessionKept(t)
          /\ last'.s \notin sessions => SessionKept(s)
          /\ ( /\ last'.op = "Save" /\ last'.s = s /\ last'.resp = "ok"
               /\ current_file_id[s] # None
               /\ current_file_id[t] = current_file_id[s] )
                => /\ store'[current_file_id[s]].data = Utf8Encode(last'.content)
                   /\ current_file_id'[t] = current_file_id'[s]]_vars

\* C13 witness: both sessions have the document of the account selected;
\* session 1 saved it with U+00E9 under the default title (the title of a
\* selected document differs from its name only after a successful Save),
\* session 2 saved it with an empty text in the last run, and the store holds
\* the empty text.
C13_Witness ==
    /\ sessions = Sessions
    /\ current_file_id[1] \in DOMAIN InitialStore
    /\ current_file_id[2] = current_file_id[1]
    /\ input_title[1] = DefaultTitle /\ input_content[1] = <<233>>
    /\ last.op = "Save" /\ last.s = 2 /\ last.resp = "ok"
    /\ last.content = EmptyText /\ input_content[2] = EmptyText
    /\ store[current_file_id[1]].data = EmptyText

\* C14: the list of a run returns a sequence: on a 200 response the files the
\* store sent (none when nothing matches), and a non-200 response is reported
\* as a failure and is not handed to the page as the list of an account
\* without files.
C14_ListFailureIsNotAnEmptyList ==
    [][\A s \in sessions :
          (last'.op = "Rerun" /\ last'.s = s)
              => /\ last'.resp = "ok"
                       => /\ files'[s] \in Pages(store)
                          /\ Matching(store) = {} => files'[s] = {}
                 /\ last'.resp = "status"
                       => /\ "list_error" \in last'.msgs
                          /\ "no_files" \notin last'.msgs
                          /\ \A v \in BOOLEAN, page \in Pages(store) :
                                get_text_files_http(v, page, "status").files
                                    # get_text_files_http(v, {}, "ok").files]_vars

\* C15: read_file_http called with an empty id returns the empty text, sends
\* no request, does not refresh the credential (also when it is not valid) and
\* shows no message, whatever the store holds.
C15_ReadWithoutIdIsNoOp ==
    [][\A s \in sessions :
          (last'.op = "ReadWithoutId" /\ last'.s = s)
              => /\ last'.content = EmptyText
                 /\ last'.calls = << >>
                 /\ last'.msgs = {}
                 /\ valid' = valid
                 /\ store' = store]_vars

\* C15 witness: the call was made while the credential was not valid and the
\* store held a file; the credential is still not valid.
C15_Witness ==
    /\ last.op = "ReadWithoutId" /\ last.id = None
    /\ last.content = EmptyText /\ last.calls = << >>
    /\ ~valid
    /\ DOMAIN store # {}

C17_SessionMatchesStoreAfterSave ==
    [][\A s \in sessions :
          (last'.op = "Save" /\ last'.s = s /\ last'.resp = "ok")
              => /\ input_title'[s] = last'.title
                 /\ input_content'[s] = last'.content
                 /\ current_file_id'[s] \in DOMAIN store'
                 /\ store'[current_file_id'[s]].data = Utf8Encode(input_content'[s])
                 /\ Utf8Decode(store'[current_file_id'[s]].data)
                        = input_content'[s]]_vars

\* C17 witness: a successful update that replaced an empty buffer and an empty
\* document by U+00E9; session and store agree on it.
C17_Witness ==
    /\ last.op = "Save" /\ last.resp = "ok" /\ last.id # None
    /\ last.content = <<233>>
    /\ current_file_id[last.s] \in created[last.s]
    /\ input_content[last.s] = <<233>>
    /\ input_title[last.s] = last.title
    /\ store[current_file_id[last.s]].data = <<195, 169>>

\* The requests the run recorded in h sent.
RequestsOf(h) == {i \in DOMAIN h.calls : h.calls[i] \in Requests}

\* C18, as amended: every request is sent by a call that evaluated creds.valid
\* first; the call refreshes exactly when that check found the credential not
\* valid, the refresh comes before the request, a refresh that fails ends the
\* call without a request, and a call whose check found the credential valid
\* does not refresh.
C18_TokenBeforeRequest ==
    [][\A s \in sessions :
          /\ (last'.op = "Check" /\ last'.s = s)
                => /\ call'[s].found = valid
                   /\ call'[s].pc = (IF valid THEN "send" ELSE "refresh")
                   /\ valid' = valid
                   /\ RequestsOf(last') = {}
          /\ (last'.op = "Refresh" /\ last'.s = s)
                => /\ ~call[s].found
                   /\ last'.resp = "ok" => valid' /\ call'[s].pc = "send"
                   /\ last'.resp = "failed" => call'[s].pc = "idle"
                   /\ RequestsOf(last') = {}
          /\ (last'.op = "Send" /\ last'.s = s)
                => /\ call[s].pc = "send"
                   /\ RequestsOf(last') = {Len(last'.calls)}
                   /\ last'.calls[Len(last'.calls)] = call[s].req
                   /\ Sent(last', "refresh") <=> ~call[s].found
                   /\ Count(last', "refresh") <= 1
          /\ (last'.s = s /\ RequestsOf(last') # {}) => last'.op = "Send"]_vars

\* C18 witness: a call that found the credential not valid refreshed it and
\* sent its request, while the call of the other session, which had found the
\* credential not valid too, is about to refresh it although it is valid now.
C18_Witness ==
    /\ last.op = "Send" /\ Len(last.calls) = 2
    /\ last.calls[1] = "refresh" /\ last.calls[2] \in Requests
    /\ valid
    /\ \E t \in sessions \ {last.s} : call[t].pc = "refresh" /\ ~call[t].found

\* C18 as stated: get_access_token decides to refresh exactly when the
\* credential is not valid, a request is sent only by a call that found the
\* credential valid or refreshed it, and no refresh occurs while the
\* credential is valid.
C18_NoRefreshWhileValid ==
    [][\A s \in sessions :
          /\ (last'.op = "Check" /\ last'.s = s)
                => call'[s].pc = (IF valid THEN "send" ELSE "refresh")
          /\ (last'.op = "Refresh" /\ last'.s = s) => ~valid
          /\ (last'.op = "Send" /\ last'.s = s)
                => call[s].found \/ Sent(last', "refresh")]_vars

=============================================================================
